---- MODULE Spec2Model ----
(***************************************************************************)
(* gobench: the concurrent request-driving engine of src/gobench.go.       *)
(* The state is main's locals, the configuration, the four worker          *)
(* channels, the signal channel, the duration timer and, per worker        *)
(* goroutine, its position in client() and its Result record.              *)
(***************************************************************************)
EXTENDS Integers, Sequences, FiniteSets, TLC

\* ---------------------------------------------------------------- bounds
MaxClients == 2     \* largest -c value explored
MaxWork == 4        \* largest run explored, see Work
BurstWork == MaxWork    \* largest run that overfills a channel, under FairSpec
FairWork == MaxWork - 1 \* largest run explored under FairSpec
MaxUrls == 2        \* longest URL-list file explored
MaxLatency == 2     \* largest request latency (ms) explored
MaxInterrupts == 1  \* times the operator presses ^C
MaxOptions == 2     \* most optional flags given on one command line
FairOptions == MaxOptions - 1 \* the same under FairSpec
MaxCalls == 3       \* Read/Write calls explored on the counting connections
MaxBytes == 2       \* most bytes one Read or Write call transfers

\* ------------------------------------------------------ program constants
\* (1 << 63) - 1 at gobench.go:283.  TLC integers are 32 bits wide, so the
\* largest TLC integer stands for it; no counter of the model comes near.
MaxInt64 == 2147483647
Unset == -1         \* default of -r and of -t
SignalCap == 2      \* make(chan os.Signal, 2)
InitDumpCount == 5  \* var dumpCount = 5
InitMaxLatency == -1 \* var maxLatency = int64(-1)

\* ------------------------------------------------------------------ URLs
\* A URL text is represented by what url.Parse makes of it: an error, or
\* the components it finds.
NoURL == [err |-> FALSE, scheme |-> "", host |-> "", port |-> ""]    \* the text ""
HttpA == [err |-> FALSE, scheme |-> "http", host |-> "a", port |-> ""]
HttpsB == [err |-> FALSE, scheme |-> "https", host |-> "b", port |-> "8443"]
FtpC == [err |-> FALSE, scheme |-> "ftp", host |-> "c", port |-> ""]
BadURL == [err |-> TRUE, scheme |-> "", host |-> "", port |-> ""]    \* e.g. ":"
TargetURLs == {NoURL, HttpA, HttpsB, FtpC, BadURL}
FileURLs == {HttpA, FtpC, BadURL}
NoFile == ""        \* urlsFilePath == ""
\* The -t values explored: the model has no clock, the period only decides
\* that there is a timer.
Periods == {1}
UrlsFile == "urls.txt"
PostFile == "post.txt"
CertFile == "cert.pem"
KeyFile == "key.pem"
\* What ioutil.ReadFile makes of the -d file: an error, or its bytes (their
\* number).  NoData is the nil slice.
NoData == [err |-> FALSE, set |-> FALSE, len |-> 0]
PostFiles == {[err |-> TRUE, set |-> FALSE, len |-> 0],
              [err |-> FALSE, set |-> TRUE, len |-> 1]}

RECURSIVE SeqsUpTo(_, _)
SeqsUpTo(S, n) ==
    IF n = 0 THEN {<<>>}
    ELSE LET shorter == SeqsUpTo(S, n - 1)
         IN  shorter \cup {Append(s, x) : s \in {t \in shorter : Len(t) = n - 1}, x \in S}

\* parseHostname: u.Host; fatal where it calls log.Fatal.
parseHostname(address) ==
    [fatal |-> address.err,
     host |-> IF address.port = "" THEN address.host
              ELSE address.host \o ":" \o address.port]

\* parseAddress: the host:port to dial; fatal where it calls log.Fatal.
parseAddress(address) ==
    IF address.err THEN [fatal |-> TRUE, host |-> "", port |-> ""]
    ELSE IF address.port = ""
    THEN CASE address.scheme = "https" ->
                [fatal |-> FALSE, host |-> address.host, port |-> "443"]
           [] address.scheme = "http" ->
                [fatal |-> FALSE, host |-> address.host, port |-> "80"]
           [] OTHER -> [fatal |-> TRUE, host |-> address.host, port |-> ""]
    ELSE [fatal |-> FALSE, host |-> address.host, port |-> address.port]

\* net/http refuses, before dialing, a request whose URL has no http(s)
\* scheme or no host; client.Do then returns an error.
Dials(u) == ~u.err /\ u.scheme \in {"http", "https"} /\ u.host # ""

\* ------------------------------------------------------------- responses
Is2xx(status) == status >= 200 /\ status < 300

\* A response is a status, a body length and the header as a sequence of
\* [key length, value lengths].
Responses ==
    { [status |-> 200, body |-> 1, header |-> <<[key |-> 1, values |-> <<1>>]>>],
      [status |-> 503, body |-> 0, header |-> <<>>] }
Latencies == 1..MaxLatency

RECURSIVE SumLens(_)
SumLens(values) ==
    IF values = <<>> THEN 0 ELSE (Head(values) + 2) + SumLens(Tail(values))

RECURSIVE HeaderSize(_)
HeaderSize(header) ==
    IF header = <<>> THEN 0
    ELSE SumLens(Head(header).values) + (Head(header).key + 2) + HeaderSize(Tail(header))

\* size = len(body) + 2, plus len(s) + 2 per value and len(key) + 2 per key
ResponseSize(res) == res.body + 2 + HeaderSize(res.header)

\* ----------------------------------------------------------------- state
VARIABLES
    budget,             \* the size of the runs explored, see Work
    flags,              \* the parsed command line (package-level vars)
    dumpResponse,       \* the global dumpResponse, written by main's loop
    configuration,      \* *Configuration, or NoConfiguration
    timer,              \* "off", "armed", "fired": the -t goroutines
    mainPc,             \* main: "config", "dispatch", "loop", "exited"
    exitCode,           \* process exit status, -1 while running
    results,            \* results[i], the Result of worker i
    wpc,                \* worker i's position in client()
    wloc,               \* worker i's locals
    respChan, errChan, dumpChan, exitChan, signalChan,
    runningGoroutines, messageCount, maxLatency, dumpCount,
    latencies,          \* the histogram: its sample count
    notified,           \* number of "latency:" lines printed
    readThroughput, writeThroughput,
    conn,               \* the MyConn call each goroutine is in, if any
    hist                \* bookkeeping of what happened, read by no action

vars == <<budget, flags, dumpResponse, configuration, timer, mainPc, exitCode, results,
          wpc, wloc, respChan, errChan, dumpChan, exitChan, signalChan,
          runningGoroutines, messageCount, maxLatency, dumpCount, latencies,
          notified, readThroughput, writeThroughput, conn, hist>>

io == <<readThroughput, writeThroughput, conn>>

\* A connection is used by two goroutines of the transport, one reading
\* and one writing.  Of each the state holds the call it is in: pc is
\* "under" once the underlying connection has returned (len, err), and
\* "done" once MyConn has returned (n, rerr) to its caller.
Ops == {"Read", "Write"}
NoCall == [pc |-> "none", len |-> 0, err |-> FALSE, n |-> 0, rerr |-> FALSE]

NoClient == [DisableKeepAlives |-> FALSE, ServerName |-> ""]
NoConfiguration ==
    [urls |-> <<>>, method |-> "", postData |-> NoData, requests |-> 0,
     period |-> 0, keepAlive |-> FALSE, authHeader |-> "", myClient |-> NoClient]
NoRequest == [Method |-> "", Body |-> NoData, Close |-> FALSE,
              Authorization |-> "", Host |-> ""]
NoReport == [made |-> FALSE, totals |-> <<>>, read |-> <<>>, samples |-> 0, writers |-> {}]
Workers == 0..(flags.clients - 1)
ChanCap == 2 * flags.clients
\* The latency of an outcome is read by RecordValue, which the model has
\* count the sample, and under -m by the comparison with maxLatency, for a
\* 2xx outcome only: one value is explored where no comparison reads it.
LatenciesOf(status) ==
    IF Is2xx(status) /\ flags.trackMaxLatency THEN Latencies ELSE {1}
ZeroResult == [requests |-> 0, success |-> 0, networkFailed |-> 0, badFailed |-> 0]
\* No connection was asked of the dial function.
NoDial == [fatal |-> FALSE, host |-> "", port |-> ""]
ZeroLocals == [idx |-> 0, req |-> NoRequest, dialed |-> NoDial, err |-> FALSE,
               status |-> 0, elapsed |-> 0, size |-> 0, statusCode |-> 0,
               body |-> 0, header |-> <<>>]
ZeroServed == [ok |-> 0, bad |-> 0, err |-> 0]
ZeroSent == [resp |-> 0, ok |-> 0, err |-> 0, dump |-> 0, exit |-> 0]
Alive == exitCode = -1

\* The size of a run: what its workers send to main (one outcome per
\* attempt and one completion signal each) and the weight of the optional
\* flags given.  The runs explored are those of size budget at most.
Features(f) ==
    (IF f.dumpResponse THEN 1 ELSE 0) + (IF f.trackMaxLatency THEN 1 ELSE 0)
        + (IF f.keepAlive THEN 1 ELSE 0)
        + (IF f.postDataFilePath # NoFile THEN 1 ELSE 0)
        + (IF f.authHeader # "" THEN 1 ELSE 0)
        + (IF f.hostHeader # "" THEN 1 ELSE 0)
        + (IF f.resolve # "" THEN 1 ELSE 0)
        + (IF f.mtlsCertFile # NoFile THEN 1 ELSE 0)
        + (IF f.mtlsKeyFile # NoFile THEN 1 ELSE 0)

\* The optional flags given that only shape the request: they decide no
\* step of main or of a worker, and count twice in the size of a run.
Shaping(f) ==
    (IF f.keepAlive THEN 1 ELSE 0)
        + (IF f.postDataFilePath # NoFile THEN 1 ELSE 0)
        + (IF f.authHeader # "" THEN 1 ELSE 0)
        + (IF f.hostHeader # "" THEN 1 ELSE 0)
        + (IF f.resolve # "" THEN 1 ELSE 0)

Weight(f) == Features(f) + Shaping(f)

UrlCount(f) ==
    (IF f.urlsFilePath # NoFile THEN Len(f.fileLines) ELSE 0)
        + (IF f.targetURL # NoURL THEN 1 ELSE 0)

\* Attempts a worker makes until result.requests reaches n, k URLs a cycle.
Attempts(n, k) == IF k = 0 THEN 0 ELSE ((n + k - 1) \div k) * k

Work(f) == f.clients * (Attempts(f.requests, UrlCount(f)) + 1) + Weight(f)

\* In a duration-bounded run a worker goes on until the process exits; the
\* model lets it make the attempts that keep the run within the budget.
IssueCap ==
    LET n == (budget - Weight(flags)) \div flags.clients - 1
    IN  IF n > 0 THEN n ELSE 0

\* The optional flags, and the command line that gives those of the set
\* given next to the values of the other flags.
Options == {"k", "d", "auth", "host", "resolve", "x", "y", "m", "dump"}

\* The -f file: none named, an unreadable one, or its lines.
UrlsFiles ==
    {[path |-> NoFile, err |-> FALSE, lines |-> <<>>],
     [path |-> UrlsFile, err |-> TRUE, lines |-> <<>>]}
        \cup {[path |-> UrlsFile, err |-> FALSE, lines |-> l] :
                 l \in SeqsUpTo(FileURLs, MaxUrls)}

CommandLine(given, requests, period, clients, target, file, postFile, keyPairErr) ==
    [requests |-> requests,
     period |-> period,
     clients |-> clients,
     targetURL |-> target,
     urlsFilePath |-> file.path,
     urlsFileErr |-> file.err,
     fileLines |-> file.lines,
     keepAlive |-> "k" \in given,
     postDataFilePath |-> IF "d" \in given THEN PostFile ELSE NoFile,
     postFile |-> postFile,
     authHeader |-> IF "auth" \in given THEN "Basic Zm9v" ELSE "",
     hostHeader |-> IF "host" \in given THEN "h" ELSE "",
     resolve |-> IF "resolve" \in given THEN "r" ELSE "",
     mtlsCertFile |-> IF "x" \in given THEN CertFile ELSE NoFile,
     mtlsKeyFile |-> IF "y" \in given THEN KeyFile ELSE NoFile,
     keyPairErr |-> keyPairErr,
     trackMaxLatency |-> "m" \in given,
     dumpResponse |-> "dump" \in given]

\* The command lines explored are those of MaxOptions optional flags at
\* most and of size at most: one cycle of every worker fits, and so does
\* all of a count-bounded run.  Of a file the command line does not name
\* there is nothing to say.  The https target with an explicit port is
\* explored in the runs of one request by one client.
InitOfSize(size) ==
    /\ budget = size
    /\ \E given \in {S \in SUBSET Options : Cardinality(S) <= MaxOptions},
          clients \in 1..MaxClients, target \in TargetURLs, file \in UrlsFiles :
          /\ clients * (Len(file.lines) + (IF target # NoURL THEN 1 ELSE 0) + 1)
                + Cardinality(given) <= size
          /\ \E requests \in {Unset} \cup 0..size,
                period \in {Unset} \cup Periods,
                postFile \in (IF "d" \in given THEN PostFiles ELSE {NoData}),
                keyPairErr \in (IF "x" \in given THEN BOOLEAN ELSE {FALSE}) :
                flags = CommandLine(given, requests, period, clients, target,
                                    file, postFile, keyPairErr)
    /\ Features(flags) <= MaxOptions
    /\ flags.clients * (UrlCount(flags) + 1) + Weight(flags) <= size
    /\ flags.requests # Unset => Work(flags) <= size
    /\ flags.targetURL = HttpsB =>
          flags.requests = 1 /\ flags.period = Unset /\ flags.clients = 1
    /\ dumpResponse = flags.dumpResponse
    /\ configuration = NoConfiguration
    /\ timer = "off"
    /\ mainPc = "config"
    /\ exitCode = -1
    /\ results = [w \in {} |-> ZeroResult]
    /\ wpc = [w \in Workers |-> "idle"]
    /\ wloc = [w \in Workers |-> ZeroLocals]
    /\ respChan = <<>>
    /\ errChan = 0
    /\ dumpChan = 0
    /\ exitChan = 0
    /\ signalChan = 0
    /\ runningGoroutines = 0
    /\ messageCount = 0
    /\ maxLatency = InitMaxLatency
    /\ dumpCount = InitDumpCount
    /\ latencies = [count |-> 0]
    /\ notified = 0
    /\ readThroughput = 0
    /\ writeThroughput = 0
    /\ conn = [c \in {} |-> [op \in Ops |-> NoCall]]
    /\ hist = [sigConsumed |-> FALSE,
               interrupts |-> 0,
               calls |-> 0,
               delivered |-> [Read |-> 0, Write |-> 0],
               consumed |-> [resp |-> 0, ok |-> 0, err |-> 0, dump |-> 0, exit |-> 0],
               maxOk |-> -1,
               served |-> [w \in Workers |-> ZeroServed],
               sent |-> [w \in Workers |-> ZeroSent],
               hits |-> [w \in Workers |-> [i \in 1..MaxUrls |-> 0]],
               report |-> NoReport]

Init == InitOfSize(MaxWork)

\* ------------------------------------------------------------------ main
CountBounded == flags.requests # Unset /\ flags.period = Unset
DurationBounded == flags.period # Unset /\ flags.requests = Unset

\* Rejected without the test of -host against -f.
RejectedButForHost ==
    \/ flags.urlsFilePath = NoFile /\ flags.targetURL = NoURL
    \/ /\ flags.urlsFilePath # NoFile
       /\ flags.targetURL # NoURL \/ flags.authHeader # "" \/ flags.resolve # ""
    \/ flags.requests = Unset /\ flags.period = Unset
    \/ flags.requests # Unset /\ flags.period # Unset
    \/ flags.mtlsKeyFile # NoFile /\ flags.mtlsCertFile = NoFile
    \/ flags.mtlsKeyFile = NoFile /\ flags.mtlsCertFile # NoFile

\* The flag combinations NewConfiguration answers with usage and os.Exit(1).
Rejected ==
    \/ flags.urlsFilePath = NoFile /\ flags.targetURL = NoURL
    \/ /\ flags.urlsFilePath # NoFile
       /\ \/ flags.hostHeader # "" \/ flags.targetURL # NoURL
          \/ flags.authHeader # "" \/ flags.resolve # ""
    \/ flags.requests = Unset /\ flags.period = Unset
    \/ flags.requests # Unset /\ flags.period # Unset
    \/ flags.mtlsKeyFile # NoFile /\ flags.mtlsCertFile = NoFile
    \/ flags.mtlsKeyFile = NoFile /\ flags.mtlsCertFile # NoFile

\* The resources NewConfiguration fails to load, each answered with
\* log.Fatal: the URL-list file, the target URL (parseHostname), the
\* certificate and key, the POST data file.
LoadFails ==
    \/ flags.urlsFilePath # NoFile /\ flags.urlsFileErr
    \/ parseHostname(flags.targetURL).fatal
    \/ flags.mtlsCertFile # NoFile /\ flags.keyPairErr
    \/ flags.postDataFilePath # NoFile /\ flags.postFile.err

\* certificateExpectedName without the -resolve override.
certificateExpectedNameOfTarget == parseHostname(flags.targetURL).host

certificateExpectedName ==
    IF flags.resolve # "" THEN flags.resolve ELSE parseHostname(flags.targetURL).host

ConfiguredURLs ==
    LET fileLines == IF flags.urlsFilePath # NoFile THEN flags.fileLines ELSE <<>>
    IN  IF flags.targetURL # NoURL THEN Append(fileLines, flags.targetURL) ELSE fileLines

\* Built with a request limit of zero where -r is not given.
BuiltLimitZero ==
    [urls |-> ConfiguredURLs,
     method |-> IF flags.postDataFilePath # NoFile THEN "POST" ELSE "GET",
     postData |-> IF flags.postDataFilePath # NoFile THEN flags.postFile ELSE NoData,
     requests |-> IF flags.requests # Unset THEN flags.requests ELSE 0,
     period |-> IF flags.period # Unset THEN flags.period ELSE 0,
     keepAlive |-> flags.keepAlive,
     authHeader |-> flags.authHeader,
     myClient |-> [DisableKeepAlives |-> ~flags.keepAlive,
                   ServerName |-> certificateExpectedName]]

\* The *Configuration NewConfiguration returns.
Built ==
    [urls |-> ConfiguredURLs,
     method |-> IF flags.postDataFilePath # NoFile THEN "POST" ELSE "GET",
     postData |-> IF flags.postDataFilePath # NoFile THEN flags.postFile ELSE NoData,
     requests |-> IF flags.requests # Unset THEN flags.requests ELSE MaxInt64,
     period |-> IF flags.period # Unset THEN flags.period ELSE 0,
     keepAlive |-> flags.keepAlive,
     authHeader |-> flags.authHeader,
     myClient |-> [DisableKeepAlives |-> ~flags.keepAlive,
                   ServerName |-> certificateExpectedName]]

\* The timer goroutines are started before the resources are loaded.
NewConfiguration ==
    /\ Alive /\ mainPc = "config"
    /\ IF Rejected
       THEN /\ exitCode' = 1
            /\ UNCHANGED <<configuration, timer, mainPc>>
       ELSE IF LoadFails
       THEN /\ exitCode' = 1
            /\ timer' = IF flags.period # Unset THEN "armed" ELSE "off"
            /\ UNCHANGED <<configuration, mainPc>>
       ELSE /\ configuration' = Built
            /\ timer' = IF flags.period # Unset THEN "armed" ELSE "off"
            /\ mainPc' = "dispatch"
            /\ UNCHANGED exitCode
    /\ UNCHANGED <<io, budget, flags, dumpResponse, results, wpc, wloc, respChan, errChan,
                   dumpChan, exitChan, signalChan, runningGoroutines,
                   messageCount, maxLatency, dumpCount, latencies, notified, hist>>

\* runningGoroutines = clients, then one Result and one goroutine per client.
Dispatch ==
    /\ Alive /\ mainPc = "dispatch"
    /\ runningGoroutines' = flags.clients
    /\ results' = [w \in Workers |-> ZeroResult]
    /\ wpc' = [w \in Workers |-> "outer"]
    /\ mainPc' = "loop"
    /\ UNCHANGED <<io, budget, flags, dumpResponse, configuration, timer, exitCode, wloc,
                   respChan, errChan, dumpChan, exitChan, signalChan,
                   messageCount, maxLatency, dumpCount, latencies, notified, hist>>

\* One more item of kind k taken off its channel by main's select.
Consumed(k) == [hist EXCEPT !.consumed[k] = @ + 1]

InLoop == Alive /\ mainPc = "loop" /\ runningGoroutines > 0

\* case err := <-errChan
AggErr ==
    /\ InLoop /\ errChan > 0
    /\ errChan' = errChan - 1
    /\ hist' = Consumed("err")
    /\ UNCHANGED <<io, budget, flags, dumpResponse, configuration, timer, mainPc, exitCode,
                   results, wpc, wloc, respChan, dumpChan, exitChan, signalChan,
                   runningGoroutines, messageCount, maxLatency, dumpCount,
                   latencies, notified>>

\* latencies.RecordValue: every latency of the model lies in the range
\* [1, 10000] the histogram was created with, so every sample is counted.
RecordValue(h, v) == [count |-> h.count + 1]

\* NewMax taking a latency equal to the maximum for a new one.
NewMaxOrEqual(latency) == maxLatency < 0 \/ latency >= maxLatency

NewMax(latency) == maxLatency < 0 \/ latency > maxLatency

\* Bookkeeping of the outcome main took from respChan: how many were 2xx
\* and, in a run with -m, the largest latency among them.
ConsumedResp(res) ==
    IF Is2xx(res.status)
    THEN [hist EXCEPT !.consumed.resp = @ + 1, !.consumed.ok = @ + 1,
                      !.maxOk = IF flags.trackMaxLatency /\ res.latency > @
                                THEN res.latency ELSE @]
    ELSE [hist EXCEPT !.consumed.resp = @ + 1]

\* AggResp taking no outcome from a full respChan.
AggRespWhenRoom ==
    /\ InLoop /\ respChan # <<>> /\ Len(respChan) < ChanCap
    /\ LET res == Head(respChan) IN
        /\ respChan' = Tail(respChan)
        /\ IF Is2xx(res.status)
           THEN /\ messageCount' = messageCount + 1
                /\ latencies' = RecordValue(latencies, res.latency)
                /\ IF flags.trackMaxLatency /\ NewMax(res.latency)
                   THEN maxLatency' = res.latency /\ notified' = notified + 1
                   ELSE UNCHANGED <<maxLatency, notified>>
           ELSE UNCHANGED <<messageCount, latencies, maxLatency, notified>>
        /\ hist' = ConsumedResp(res)
    /\ UNCHANGED <<io, budget, flags, dumpResponse, configuration, timer, mainPc, exitCode,
                   results, wpc, wloc, errChan, dumpChan, exitChan, signalChan,
                   runningGoroutines, dumpCount>>

\* AggResp recording the latency of every outcome, whatever its status.
AggRespSamplesAll ==
    /\ InLoop /\ respChan # <<>>
    /\ LET res == Head(respChan) IN
        /\ respChan' = Tail(respChan)
        /\ latencies' = RecordValue(latencies, res.latency)
        /\ IF Is2xx(res.status)
           THEN /\ messageCount' = messageCount + 1
                /\ IF flags.trackMaxLatency /\ NewMax(res.latency)
                   THEN maxLatency' = res.latency /\ notified' = notified + 1
                   ELSE UNCHANGED <<maxLatency, notified>>
           ELSE UNCHANGED <<messageCount, maxLatency, notified>>
        /\ hist' = ConsumedResp(res)
    /\ UNCHANGED <<io, budget, flags, dumpResponse, configuration, timer, mainPc, exitCode,
                   results, wpc, wloc, errChan, dumpChan, exitChan, signalChan,
                   runningGoroutines, dumpCount>>

\* case res := <-respChan
AggResp ==
    /\ InLoop /\ respChan # <<>>
    /\ LET res == Head(respChan) IN
        /\ respChan' = Tail(respChan)
        /\ IF Is2xx(res.status)
           THEN /\ messageCount' = messageCount + 1
                /\ latencies' = RecordValue(latencies, res.latency)
                /\ IF flags.trackMaxLatency /\ NewMax(res.latency)
                   THEN maxLatency' = res.latency /\ notified' = notified + 1
                   ELSE UNCHANGED <<maxLatency, notified>>
           ELSE UNCHANGED <<messageCount, latencies, maxLatency, notified>>
        /\ hist' = ConsumedResp(res)
    /\ UNCHANGED <<io, budget, flags, dumpResponse, configuration, timer, mainPc, exitCode,
                   results, wpc, wloc, errChan, dumpChan, exitChan, signalChan,
                   runningGoroutines, dumpCount>>

\* case body := <-dumpChan
AggDump ==
    /\ InLoop /\ dumpChan > 0
    /\ dumpChan' = dumpChan - 1
    /\ IF dumpCount > 0
       THEN dumpCount' = dumpCount - 1 /\ UNCHANGED dumpResponse
       ELSE dumpResponse' = FALSE /\ UNCHANGED dumpCount
    /\ hist' = Consumed("dump")
    /\ UNCHANGED <<io, budget, flags, configuration, timer, mainPc, exitCode, results, wpc,
                   wloc, respChan, errChan, exitChan, signalChan,
                   runningGoroutines, messageCount, maxLatency, latencies, notified>>

\* AggExit ending the loop at the first completion signal.
AggExitEndsLoop ==
    /\ InLoop /\ exitChan > 0
    /\ exitChan' = exitChan - 1
    /\ runningGoroutines' = 0
    /\ hist' = Consumed("exit")
    /\ UNCHANGED <<io, budget, flags, dumpResponse, configuration, timer, mainPc, exitCode,
                   results, wpc, wloc, respChan, errChan, dumpChan, signalChan,
                   messageCount, maxLatency, dumpCount, latencies, notified>>

\* case _ = <-exitChan
AggExit ==
    /\ InLoop /\ exitChan > 0
    /\ exitChan' = exitChan - 1
    /\ runningGoroutines' = runningGoroutines - 1
    /\ hist' = Consumed("exit")
    /\ UNCHANGED <<io, budget, flags, dumpResponse, configuration, timer, mainPc, exitCode,
                   results, wpc, wloc, respChan, errChan, dumpChan, signalChan,
                   messageCount, maxLatency, dumpCount, latencies, notified>>

\* AggSignal treating the signal as one more completion.
AggSignalDecrements ==
    /\ InLoop /\ signalChan > 0
    /\ signalChan' = signalChan - 1
    /\ runningGoroutines' = runningGoroutines - 1
    /\ hist' = [hist EXCEPT !.sigConsumed = TRUE]
    /\ UNCHANGED <<io, budget, flags, dumpResponse, configuration, timer, mainPc, exitCode,
                   results, wpc, wloc, respChan, errChan, dumpChan, exitChan,
                   messageCount, maxLatency, dumpCount, latencies, notified>>

\* case _ = <-signalChan
AggSignal ==
    /\ InLoop /\ signalChan > 0
    /\ signalChan' = signalChan - 1
    /\ runningGoroutines' = 0
    /\ hist' = [hist EXCEPT !.sigConsumed = TRUE]
    /\ UNCHANGED <<io, budget, flags, dumpResponse, configuration, timer, mainPc, exitCode,
                   results, wpc, wloc, respChan, errChan, dumpChan, exitChan,
                   messageCount, maxLatency, dumpCount, latencies, notified>>

RECURSIVE SumOver(_, _, _)
SumOver(rs, field, ws) ==
    IF ws = {} THEN 0
    ELSE LET w == CHOOSE x \in ws : TRUE
         IN  rs[w][field] + SumOver(rs, field, ws \ {w})

\* printResults sums the Result records as they are at that moment.
printResults(rs) ==
    [requests |-> SumOver(rs, "requests", DOMAIN rs),
     success |-> SumOver(rs, "success", DOMAIN rs),
     networkFailed |-> SumOver(rs, "networkFailed", DOMAIN rs),
     badFailed |-> SumOver(rs, "badFailed", DOMAIN rs)]

\* The counter worker w's last attempt fell under, once Classify has reset
\* err: statusCode is 0 for a failed attempt and for no response.
LastClass(w) ==
    IF wloc[w].statusCode = 0 THEN "networkFailed"
    ELSE IF Is2xx(wloc[w].statusCode) THEN "success"
    ELSE "badFailed"

\* The counters worker w incremented since its last synchronising operation
\* (a channel send, the HTTP round trip): requests after result.requests++,
\* the class counter as well after the switch, until the next request or
\* the completion signal.
Unflushed(w) ==
    IF wpc[w] = "classify" THEN {"requests"}
    ELSE IF wpc[w] \in {"inner", "outer", "exit"} /\ results[w].requests > 0
    THEN {"requests", LastClass(w)}
    ELSE {}

\* printResults reads worker w's Result with no synchronisation while the
\* worker may be writing it: each counter read is the value in memory or,
\* for an increment not yet flushed, the value before it.
Views(w) ==
    {[f \in DOMAIN results[w] |-> results[w][f] - (IF f \in behind THEN 1 ELSE 0)] :
        behind \in SUBSET Unflushed(w)}

\* The loop has ended: printResults, printLatency, os.Exit(0).
Report ==
    /\ Alive /\ mainPc = "loop" /\ runningGoroutines <= 0
    /\ \E read \in [Workers -> UNION {Views(w) : w \in Workers}] :
          /\ \A w \in Workers : read[w] \in Views(w)
          /\ hist' = [hist EXCEPT !.report =
                         [made |-> TRUE,
                          totals |-> printResults(read),
                          read |-> read,
                          samples |-> latencies.count,
                          writers |-> {w \in Workers : wpc[w] # "done"}]]
    /\ mainPc' = "exited"
    /\ exitCode' = 0
    /\ UNCHANGED <<io, budget, flags, dumpResponse, configuration, timer, results, wpc, wloc,
                   respChan, errChan, dumpChan, exitChan, signalChan,
                   runningGoroutines, messageCount, maxLatency, dumpCount,
                   latencies, notified>>

\* signal.Notify relays SIGINT to signalChan without blocking: a signal
\* that finds the channel full is dropped.
Notify == IF signalChan < SignalCap THEN signalChan + 1 ELSE signalChan

\* TimerFires without the signal.
TimerFiresSilently ==
    /\ Alive /\ timer = "armed"
    /\ timer' = "fired"
    /\ UNCHANGED <<io, budget, flags, dumpResponse, configuration, mainPc, exitCode, results,
                   wpc, wloc, respChan, errChan, dumpChan, exitChan, signalChan,
                   runningGoroutines, messageCount, maxLatency, dumpCount,
                   latencies, notified, hist>>

\* The -t goroutines: after the period, proc.Signal(os.Interrupt) on itself.
TimerFires ==
    /\ Alive /\ timer = "armed"
    /\ timer' = "fired"
    /\ signalChan' = Notify
    /\ UNCHANGED <<io, budget, flags, dumpResponse, configuration, mainPc, exitCode, results,
                   wpc, wloc, respChan, errChan, dumpChan, exitChan,
                   runningGoroutines, messageCount, maxLatency, dumpCount,
                   latencies, notified, hist>>

\* The operator presses ^C.
Interrupt ==
    /\ Alive /\ hist.interrupts < MaxInterrupts
    /\ signalChan' = Notify
    /\ hist' = [hist EXCEPT !.interrupts = @ + 1]
    /\ UNCHANGED <<io, budget, flags, dumpResponse, configuration, timer, mainPc, exitCode,
                   results, wpc, wloc, respChan, errChan, dumpChan, exitChan,
                   runningGoroutines, messageCount, maxLatency, dumpCount,
                   latencies, notified>>

\* ---------------------------------------------------------------- client
Local(w, l) == [wloc EXCEPT ![w] = l]
Goto(w, pc) == [wpc EXCEPT ![w] = pc]

\* Outer starting each cycle at the second URL of the list.
OuterSkipsFirst(w) ==
    /\ Alive /\ wpc[w] = "outer"
    /\ IF results[w].requests < configuration.requests
       THEN IF Len(configuration.urls) < 2
            THEN UNCHANGED <<wpc, wloc>>
            ELSE wpc' = Goto(w, "inner") /\ wloc' = Local(w, [wloc[w] EXCEPT !.idx = 2])
       ELSE wpc' = Goto(w, "exit") /\ UNCHANGED wloc
    /\ UNCHANGED <<io, budget, flags, dumpResponse, configuration, timer, mainPc, exitCode,
                   results, respChan, errChan, dumpChan, exitChan, signalChan,
                   runningGoroutines, messageCount, maxLatency, dumpCount,
                   latencies, notified, hist>>

\* for result.requests < configuration.requests: the worker leaves the loop
\* or starts a cycle at the first URL.  With an empty URL list the cycle is
\* empty and the worker is back at the test, nothing changed.
Outer(w) ==
    /\ Alive /\ wpc[w] = "outer"
    /\ IF results[w].requests < configuration.requests
       THEN IF configuration.urls = <<>>
            THEN UNCHANGED <<wpc, wloc>>
            ELSE wpc' = Goto(w, "inner") /\ wloc' = Local(w, [wloc[w] EXCEPT !.idx = 1])
       ELSE wpc' = Goto(w, "exit") /\ UNCHANGED wloc
    /\ UNCHANGED <<io, budget, flags, dumpResponse, configuration, timer, mainPc, exitCode,
                   results, respChan, errChan, dumpChan, exitChan, signalChan,
                   runningGoroutines, messageCount, maxLatency, dumpCount,
                   latencies, notified, hist>>

\* The position after the attempt at URL idx: the next URL of the list, or
\* the loop test when the list is exhausted.
AfterAttempt(idx) == IF idx < Len(configuration.urls) THEN "inner" ELSE "outer"

\* The worker reads the global dumpResponse while main may write it: the
\* read yields the current value or the one main's write replaced.
ReadDumpResponse == {dumpResponse, flags.dumpResponse}

Sent(w, kind) == [hist EXCEPT !.sent[w][kind] = @ + 1]

Served(w, kind) ==
    [hist EXCEPT !.served[w][kind] = @ + 1, !.hits[w][wloc[w].idx] = @ + 1]

\* http.NewRequest: the request, when the URL parses.
NewRequest(method, url, body) ==
    [Method |-> method, Body |-> body, Close |-> FALSE,
     Authorization |-> "", Host |-> ""]

\* BuildRequest leaving the connection open after the request.
BuildRequestKeepsOpen(tmpUrl) ==
    [NewRequest(configuration.method, tmpUrl, NoData) EXCEPT
        !.Close = FALSE,
        !.Authorization = IF configuration.authHeader # ""
                          THEN configuration.authHeader ELSE @,
        !.Host = flags.hostHeader]

\* The request the worker hands to client.Do: NewRequest with a nil body,
\* then req.Close, the Authorization header and req.Host.
BuildRequest(tmpUrl) ==
    [NewRequest(configuration.method, tmpUrl, NoData) EXCEPT
        !.Close = ~configuration.keepAlive,
        !.Authorization = IF configuration.authHeader # ""
                          THEN configuration.authHeader ELSE @,
        !.Host = flags.hostHeader]

\* The bytes of an exchange as the counting connection sees them: the
\* request line and the body going out, the response coming in.
RequestBytes(req) == 1 + req.Body.len
ResponseBytes(res) == ResponseSize(res)

\* The dial function ignores the address it is given and dials targetURL.
dialFunction == parseAddress(flags.targetURL)

\* The address the transport's dial function dials for a request to tmpUrl:
\* net/http asks for a connection for http and https URLs only.
Dialed(tmpUrl) == IF Dials(tmpUrl) THEN dialFunction ELSE NoDial

\* client.Do returned an error after elapsed ms: no connection was made.
Failed(w, elapsed) ==
    /\ wloc' = Local(w, [wloc[w] EXCEPT !.err = TRUE, !.elapsed = elapsed,
                            !.req = BuildRequest(configuration.urls[wloc[w].idx]),
                            !.dialed = Dialed(configuration.urls[wloc[w].idx])])
    /\ wpc' = Goto(w, "sendErr")
    /\ hist' = Served(w, "err")
    /\ UNCHANGED <<exitCode, readThroughput, writeThroughput>>

\* client.Do returned the response res after elapsed ms; the body is read.
\* The request was written to, and the response read from, a MyConn.
Answered(w, res, elapsed) ==
    /\ LET req == BuildRequest(configuration.urls[wloc[w].idx]) IN
        /\ wloc' = Local(w, [wloc[w] EXCEPT !.err = FALSE, !.elapsed = elapsed,
                                !.req = req,
                                !.dialed = Dialed(configuration.urls[wloc[w].idx]),
                                !.status = res.status, !.body = res.body,
                                !.header = res.header])
        /\ writeThroughput' = writeThroughput + RequestBytes(req)
        /\ readThroughput' = readThroughput + ResponseBytes(res)
    /\ \E dump \in ReadDumpResponse :
          wpc' = Goto(w, IF dump THEN "sendDump" ELSE "sendResp")
    /\ hist' = [Served(w, IF Is2xx(res.status) THEN "ok" ELSE "bad") EXCEPT
                   !.delivered.Write = @ + RequestBytes(BuildRequest(configuration.urls[wloc[w].idx])),
                   !.delivered.Read = @ + ResponseBytes(res)]
    /\ UNCHANGED exitCode

\* The process ends with status code, all goroutines with it.
Dies(code) ==
    /\ exitCode' = code
    /\ UNCHANGED <<wloc, wpc, hist, readThroughput, writeThroughput>>

\* parseAddress, called by the dialer on targetURL, ends in log.Fatal: the
\* process ends with status 1 while worker w's request is being dialed.
DialDies(w) ==
    /\ exitCode' = 1
    /\ wloc' = Local(w, [wloc[w] EXCEPT !.dialed = dialFunction])
    /\ UNCHANGED <<wpc, hist, readThroughput, writeThroughput>>

\* http.NewRequest and configuration.myClient.Do for the next URL of the
\* list.  For a URL that does not parse NewRequest returns a nil request,
\* and req.Close = ... dereferences it: the goroutine panics and the
\* process ends with status 2.
Request(w) ==
    /\ Alive /\ wpc[w] = "inner"
    /\ wloc[w].idx <= Len(configuration.urls)
    /\ DurationBounded => results[w].requests < IssueCap
    /\ LET tmpUrl == configuration.urls[wloc[w].idx] IN
         IF tmpUrl.err
         THEN Dies(2)
         ELSE IF ~Dials(tmpUrl)
         THEN \E elapsed \in LatenciesOf(0) : Failed(w, elapsed)
         ELSE IF dialFunction.fatal
         THEN DialDies(w)
         ELSE \/ \E elapsed \in LatenciesOf(0) : Failed(w, elapsed)
              \/ \E res \in Responses : \E elapsed \in LatenciesOf(res.status) :
                    Answered(w, res, elapsed)
    /\ UNCHANGED <<conn, budget, flags, dumpResponse, configuration, timer, mainPc, results,
                   respChan, errChan, dumpChan, exitChan, signalChan,
                   runningGoroutines, messageCount, maxLatency, dumpCount,
                   latencies, notified>>

\* errChan <- err
SendErr(w) ==
    /\ Alive /\ wpc[w] = "sendErr"
    /\ errChan < ChanCap
    /\ errChan' = errChan + 1
    /\ wpc' = Goto(w, "sendResp")
    /\ hist' = Sent(w, "err")
    /\ UNCHANGED <<io, budget, flags, dumpResponse, configuration, timer, mainPc, exitCode,
                   results, wloc, respChan, dumpChan, exitChan, signalChan,
                   runningGoroutines, messageCount, maxLatency, dumpCount,
                   latencies, notified>>

\* dumpChan <- string(body)
SendDump(w) ==
    /\ Alive /\ wpc[w] = "sendDump"
    /\ dumpChan < ChanCap
    /\ dumpChan' = dumpChan + 1
    /\ wpc' = Goto(w, "sendResp")
    /\ hist' = Sent(w, "dump")
    /\ UNCHANGED <<io, budget, flags, dumpResponse, configuration, timer, mainPc, exitCode,
                   results, wloc, respChan, errChan, exitChan, signalChan,
                   runningGoroutines, messageCount, maxLatency, dumpCount,
                   latencies, notified>>

\* Outcome reporting a failed attempt as answered 200.
OutcomeAsAnswered(l) ==
    IF l.err
    THEN [status |-> 200, latency |-> l.elapsed, size |-> 0]
    ELSE [status |-> l.status, latency |-> l.elapsed, size |-> ResponseSize(l)]

\* Outcome giving a failed attempt the size the local size still holds.
OutcomeKeepsSize(l) ==
    IF l.err
    THEN [status |-> 0, latency |-> l.elapsed, size |-> l.size]
    ELSE [status |-> l.status, latency |-> l.elapsed, size |-> ResponseSize(l)]

\* The record the worker sends and the locals it sets on the way.
Outcome(l) ==
    IF l.err
    THEN [status |-> 0, latency |-> l.elapsed, size |-> 0]
    ELSE [status |-> l.status, latency |-> l.elapsed, size |-> ResponseSize(l)]

\* respChan <- &resp{...}; statusCode = ...
SendResp(w) ==
    /\ Alive /\ wpc[w] = "sendResp"
    /\ Len(respChan) < ChanCap
    /\ respChan' = Append(respChan, Outcome(wloc[w]))
    /\ wloc' = Local(w, [wloc[w] EXCEPT
                   !.size = IF wloc[w].err THEN @ ELSE ResponseSize(wloc[w]),
                   !.statusCode = IF wloc[w].err THEN 0 ELSE wloc[w].status])
    /\ wpc' = Goto(w, "count")
    /\ hist' = IF Is2xx(Outcome(wloc[w]).status)
                THEN [Sent(w, "resp") EXCEPT !.sent[w].ok = @ + 1]
                ELSE Sent(w, "resp")
    /\ UNCHANGED <<io, budget, flags, dumpResponse, configuration, timer, mainPc, exitCode,
                   results, errChan, dumpChan, exitChan, signalChan,
                   runningGoroutines, messageCount, maxLatency, dumpCount,
                   latencies, notified>>

\* Count adding two for one attempt.
CountTwice(w) ==
    /\ Alive /\ wpc[w] = "count"
    /\ results' = [results EXCEPT ![w].requests = @ + 2]
    /\ wpc' = Goto(w, "classify")
    /\ UNCHANGED <<io, budget, flags, dumpResponse, configuration, timer, mainPc, exitCode,
                   wloc, respChan, errChan, dumpChan, exitChan, signalChan,
                   runningGoroutines, messageCount, maxLatency, dumpCount,
                   latencies, notified, hist>>

\* Count leaving the failed attempts out, as if they were to be repeated.
CountSkipsFailures(w) ==
    /\ Alive /\ wpc[w] = "count"
    /\ results' = [results EXCEPT ![w].requests = IF wloc[w].err THEN @ ELSE @ + 1]
    /\ wpc' = Goto(w, "classify")
    /\ UNCHANGED <<io, budget, flags, dumpResponse, configuration, timer, mainPc, exitCode,
                   wloc, respChan, errChan, dumpChan, exitChan, signalChan,
                   runningGoroutines, messageCount, maxLatency, dumpCount,
                   latencies, notified, hist>>

\* result.requests++
Count(w) ==
    /\ Alive /\ wpc[w] = "count"
    /\ results' = [results EXCEPT ![w].requests = @ + 1]
    /\ wpc' = Goto(w, "classify")
    /\ UNCHANGED <<io, budget, flags, dumpResponse, configuration, timer, mainPc, exitCode,
                   wloc, respChan, errChan, dumpChan, exitChan, signalChan,
                   runningGoroutines, messageCount, maxLatency, dumpCount,
                   latencies, notified, hist>>

\* Class with the lower bound of the 2xx range excluded.
ClassAbove200(l) ==
    IF l.err THEN "networkFailed"
    ELSE IF l.statusCode > 200 /\ l.statusCode < 300 THEN "success"
    ELSE "badFailed"

\* Class without the upper bound of the 2xx range.
ClassNoUpperBound(l) ==
    IF l.err THEN "networkFailed"
    ELSE IF l.statusCode >= 200 THEN "success"
    ELSE "badFailed"

\* The counter the attempt falls under.
Class(l) ==
    IF l.err THEN "networkFailed"
    ELSE IF l.statusCode >= 200 /\ l.statusCode < 300 THEN "success"
    ELSE "badFailed"

\* Classify without the continue of the error branch: a failed attempt goes
\* on to the status test and is counted a second time.
ClassifyFallsThrough(w) ==
    /\ Alive /\ wpc[w] = "classify"
    /\ results' = IF wloc[w].err
                  THEN [results EXCEPT ![w].networkFailed = @ + 1,
                                       ![w].badFailed = @ + 1]
                  ELSE [results EXCEPT ![w][Class(wloc[w])] = @ + 1]
    /\ wloc' = Local(w, [ZeroLocals EXCEPT !.idx = wloc[w].idx + 1,
                            !.size = wloc[w].size,
                            !.statusCode = wloc[w].statusCode])
    /\ wpc' = Goto(w, AfterAttempt(wloc[w].idx))
    /\ UNCHANGED <<io, budget, flags, dumpResponse, configuration, timer, mainPc, exitCode,
                   respChan, errChan, dumpChan, exitChan, signalChan,
                   runningGoroutines, messageCount, maxLatency, dumpCount,
                   latencies, notified, hist>>

\* networkFailed++ / success++ / badFailed++, then on to the next URL: req,
\* res, err and elapsed are scoped to the iteration, size and statusCode
\* are declared before the loops and keep their values.
Classify(w) ==
    /\ Alive /\ wpc[w] = "classify"
    /\ results' = [results EXCEPT ![w][Class(wloc[w])] = @ + 1]
    /\ wloc' = Local(w, [ZeroLocals EXCEPT !.idx = wloc[w].idx + 1,
                            !.size = wloc[w].size,
                            !.statusCode = wloc[w].statusCode])
    /\ wpc' = Goto(w, AfterAttempt(wloc[w].idx))
    /\ UNCHANGED <<io, budget, flags, dumpResponse, configuration, timer, mainPc, exitCode,
                   respChan, errChan, dumpChan, exitChan, signalChan,
                   runningGoroutines, messageCount, maxLatency, dumpCount,
                   latencies, notified, hist>>

\* SendExit returning without the completion signal.
SendExitDropped(w) ==
    /\ Alive /\ wpc[w] = "exit"
    /\ wpc' = Goto(w, "done")
    /\ UNCHANGED <<io, budget, flags, dumpResponse, configuration, timer, mainPc, exitCode,
                   results, wloc, respChan, errChan, dumpChan, exitChan,
                   signalChan, runningGoroutines, messageCount, maxLatency,
                   dumpCount, latencies, notified, hist>>

\* SendExit sending the completion signal twice.
SendExitTwice(w) ==
    /\ Alive /\ wpc[w] = "exit"
    /\ exitChan < ChanCap
    /\ exitChan' = exitChan + 1
    /\ wpc' = Goto(w, IF hist.sent[w].exit = 0 THEN "exit" ELSE "done")
    /\ hist' = Sent(w, "exit")
    /\ UNCHANGED <<io, budget, flags, dumpResponse, configuration, timer, mainPc, exitCode,
                   results, wloc, respChan, errChan, dumpChan, signalChan,
                   runningGoroutines, messageCount, maxLatency, dumpCount,
                   latencies, notified>>

\* exitChan <- true
SendExit(w) ==
    /\ Alive /\ wpc[w] = "exit"
    /\ exitChan < ChanCap
    /\ exitChan' = exitChan + 1
    /\ wpc' = Goto(w, "done")
    /\ hist' = Sent(w, "exit")
    /\ UNCHANGED <<io, budget, flags, dumpResponse, configuration, timer, mainPc, exitCode,
                   results, wloc, respChan, errChan, dumpChan, signalChan,
                   runningGoroutines, messageCount, maxLatency, dumpCount,
                   latencies, notified>>

\* One step of some worker goroutine.
OuterStep == \E w \in Workers : Outer(w)
RequestStep == \E w \in Workers : Request(w)
SendErrStep == \E w \in Workers : SendErr(w)
SendDumpStep == \E w \in Workers : SendDump(w)
SendRespStep == \E w \in Workers : SendResp(w)
CountStep == \E w \in Workers : Count(w)
ClassifyStep == \E w \in Workers : Classify(w)
SendExitStep == \E w \in Workers : SendExit(w)

client(w) ==
    \/ Outer(w) \/ Request(w) \/ SendErr(w) \/ SendDump(w)
    \/ SendResp(w) \/ Count(w) \/ Classify(w) \/ SendExit(w)

\* One iteration of main's for/select loop.
Select == AggErr \/ AggResp \/ AggDump \/ AggExit \/ AggSignal

Next ==
    \/ NewConfiguration
    \/ Dispatch
    \/ AggErr
    \/ AggResp
    \/ AggDump
    \/ AggExit
    \/ AggSignal
    \/ Report
    \/ TimerFires
    \/ Interrupt
    \/ OuterStep
    \/ RequestStep
    \/ SendErrStep
    \/ SendDumpStep
    \/ SendRespStep
    \/ CountStep
    \/ ClassifyStep
    \/ SendExitStep

Spec == Init /\ [][Next]_vars

\* No request of the run ends the process: every URL parses, and none is
\* dialed by a dial function that ends in log.Fatal.
EveryRequestReturns ==
    \A i \in 1..Len(ConfiguredURLs) :
        /\ ~ConfiguredURLs[i].err
        /\ Dials(ConfiguredURLs[i]) => ~dialFunction.fatal

\* Under FairSpec: the command lines NewConfiguration accepts and whose
\* requests return, with FairOptions optional flags at most, none of them
\* one that only shapes the request.
SteadyInit ==
    /\ InitOfSize(FairWork)
    /\ ~Rejected /\ ~LoadFails /\ EveryRequestReturns
    /\ Features(flags) <= FairOptions /\ Shaping(flags) = 0

\* The runs in which a worker sends more than a channel holds: no optional
\* flag, a target no connection is made to, so that every attempt sends an
\* error notice and an outcome, and more than two attempts a worker.
BurstInit ==
    /\ InitOfSize(BurstWork)
    /\ ~Rejected /\ ~LoadFails
    /\ flags.targetURL = FtpC /\ Features(flags) = 0
    /\ flags.requests # Unset => flags.requests > 2

FairInit == SteadyInit \/ BurstInit

\* Scheduling: every goroutine that can take a step eventually takes one,
\* the period elapses, and select, which picks among its ready cases at
\* random, does not pass over a pending signal for ever.  The operator is
\* under no obligation to interrupt.
FairSpec ==
    /\ FairInit /\ [][Next]_vars
    /\ WF_vars(NewConfiguration)
    /\ WF_vars(Dispatch)
    /\ WF_vars(Select)
    /\ WF_vars(AggSignal)
    /\ WF_vars(Report)
    /\ WF_vars(TimerFires)
    /\ \A w \in 0..(MaxClients - 1) : WF_vars(w \in Workers /\ client(w))

\* ------------------------------------------------- counting connections
\* this.Conn.Read(b) / this.Conn.Write(b) has returned len bytes and err.
Underlying(c, op) ==
    /\ Alive /\ conn[c][op].pc # "under"
    /\ hist.calls < MaxCalls
    /\ \E len \in 0..MaxBytes, err \in BOOLEAN :
          /\ conn' = [conn EXCEPT ![c][op] =
                         [pc |-> "under", len |-> len, err |-> err,
                          n |-> 0, rerr |-> FALSE]]
          /\ hist' = [hist EXCEPT !.calls = @ + 1,
                                  !.delivered[op] = @ + IF err THEN 0 ELSE len]
    /\ UNCHANGED <<readThroughput, writeThroughput, budget, flags, dumpResponse,
                   configuration, timer, mainPc, exitCode, results, wpc, wloc,
                   respChan, errChan, dumpChan, exitChan, signalChan,
                   runningGoroutines, messageCount, maxLatency, dumpCount,
                   latencies, notified>>

\* MyConn returns to its caller what the underlying call returned.
Returned(c, op) ==
    [conn EXCEPT ![c][op] = [pc |-> "done", len |-> @.len, err |-> @.err,
                             n |-> @.len, rerr |-> @.err]]

\* Read counting the bytes of a failed call too.
ReadCountsFailures(c) ==
    /\ Alive /\ conn[c].Read.pc = "under"
    /\ readThroughput' = readThroughput + conn[c].Read.len
    /\ conn' = Returned(c, "Read")
    /\ UNCHANGED <<writeThroughput, budget, flags, dumpResponse,
                   configuration, timer, mainPc, exitCode, results, wpc, wloc,
                   respChan, errChan, dumpChan, exitChan, signalChan,
                   runningGoroutines, messageCount, maxLatency, dumpCount,
                   latencies, notified, hist>>

\* MyConn.Read after the underlying call: atomic.AddInt64 if err == nil,
\* return len, err.
Read(c) ==
    /\ Alive /\ conn[c].Read.pc = "under"
    /\ readThroughput' = IF ~conn[c].Read.err
                         THEN readThroughput + conn[c].Read.len
                         ELSE readThroughput
    /\ conn' = Returned(c, "Read")
    /\ UNCHANGED <<writeThroughput, budget, flags, dumpResponse,
                   configuration, timer, mainPc, exitCode, results, wpc, wloc,
                   respChan, errChan, dumpChan, exitChan, signalChan,
                   runningGoroutines, messageCount, maxLatency, dumpCount,
                   latencies, notified, hist>>

\* Write whose increment is lost when another connection is in Write too,
\* as a load and a store in place of the atomic add would lose it.
WriteLosesUpdates(c) ==
    /\ Alive /\ conn[c].Write.pc = "under"
    /\ writeThroughput' =
          IF ~conn[c].Write.err /\ \A d \in DOMAIN conn \ {c} : conn[d].Write.pc # "under"
          THEN writeThroughput + conn[c].Write.len
          ELSE writeThroughput
    /\ conn' = Returned(c, "Write")
    /\ UNCHANGED <<readThroughput, budget, flags, dumpResponse,
                   configuration, timer, mainPc, exitCode, results, wpc, wloc,
                   respChan, errChan, dumpChan, exitChan, signalChan,
                   runningGoroutines, messageCount, maxLatency, dumpCount,
                   latencies, notified, hist>>

\* MyConn.Write after the underlying call: atomic.AddInt64 if err == nil,
\* return len, err.
Write(c) ==
    /\ Alive /\ conn[c].Write.pc = "under"
    /\ writeThroughput' = IF ~conn[c].Write.err
                          THEN writeThroughput + conn[c].Write.len
                          ELSE writeThroughput
    /\ conn' = Returned(c, "Write")
    /\ UNCHANGED <<readThroughput, budget, flags, dumpResponse,
                   configuration, timer, mainPc, exitCode, results, wpc, wloc,
                   respChan, errChan, dumpChan, exitChan, signalChan,
                   runningGoroutines, messageCount, maxLatency, dumpCount,
                   latencies, notified, hist>>

UnderlyingStep == \E c \in DOMAIN conn, op \in Ops : Underlying(c, op)
ReadStep == \E c \in DOMAIN conn : Read(c)
WriteStep == \E c \in DOMAIN conn : Write(c)

\* gobench -u http://a/ -t 1 -c n
ConnFlags(n) ==
    [requests |-> Unset, period |-> 1, clients |-> n, targetURL |-> HttpA,
     urlsFilePath |-> NoFile, urlsFileErr |-> FALSE, fileLines |-> <<>>,
     keepAlive |-> FALSE, postDataFilePath |-> NoFile, postFile |-> NoData,
     authHeader |-> "", hostHeader |-> "", resolve |-> "",
     mtlsCertFile |-> NoFile, mtlsKeyFile |-> NoFile, keyPairErr |-> FALSE,
     trackMaxLatency |-> FALSE, dumpResponse |-> FALSE]

\* The clients are dispatched, each is inside its first client.Do and has
\* its connection.
ConnInit ==
    /\ budget = MaxWork
    /\ \E n \in 1..MaxClients : flags = ConnFlags(n)
    /\ dumpResponse = flags.dumpResponse
    /\ configuration = Built
    /\ timer = "armed"
    /\ mainPc = "loop"
    /\ exitCode = -1
    /\ results = [w \in Workers |-> ZeroResult]
    /\ wpc = [w \in Workers |-> "inner"]
    /\ wloc = [w \in Workers |-> [ZeroLocals EXCEPT !.idx = 1]]
    /\ respChan = <<>>
    /\ errChan = 0
    /\ dumpChan = 0
    /\ exitChan = 0
    /\ signalChan = 0
    /\ runningGoroutines = flags.clients
    /\ messageCount = 0
    /\ maxLatency = InitMaxLatency
    /\ dumpCount = InitDumpCount
    /\ latencies = [count |-> 0]
    /\ notified = 0
    /\ readThroughput = 0
    /\ writeThroughput = 0
    /\ conn = [c \in Workers |-> [op \in Ops |-> NoCall]]
    /\ hist = [sigConsumed |-> FALSE,
               interrupts |-> 0,
               calls |-> 0,
               delivered |-> [Read |-> 0, Write |-> 0],
               consumed |-> [resp |-> 0, ok |-> 0, err |-> 0, dump |-> 0, exit |-> 0],
               maxOk |-> -1,
               served |-> [w \in Workers |-> ZeroServed],
               sent |-> [w \in Workers |-> ZeroSent],
               hits |-> [w \in Workers |-> [i \in 1..MaxUrls |-> 0]],
               report |-> NoReport]

ConnNext ==
    \/ UnderlyingStep
    \/ ReadStep
    \/ WriteStep

\* The counting connections under every interleaving of their calls.
ConnSpec == ConnInit /\ [][ConnNext]_vars

\* ---------------------------------------------------------------- claims
Accepted == mainPc # "config"
AllOk(w) == hist.served[w].bad = 0 /\ hist.served[w].err = 0
AllBad(w) == hist.served[w].ok = 0 /\ hist.served[w].err = 0
Finished(w) == wpc[w] = "done"

\* C1: count-bounded run, a single target URL, limit N >= 1, every request
\* of the worker answered 200: the worker finishes with requests = N,
\* success = N, networkFailed = 0 and badFailed = 0.
C1_AllOkCounts ==
    \A w \in DOMAIN results :
        (/\ CountBounded /\ flags.requests >= 1
         /\ Len(configuration.urls) = 1
         /\ Finished(w) /\ AllOk(w))
        => results[w] = [requests |-> flags.requests, success |-> flags.requests,
                         networkFailed |-> 0, badFailed |-> 0]

C1_Witness ==
    \E w \in DOMAIN results :
        /\ CountBounded /\ flags.requests >= 2
        /\ Len(configuration.urls) = 1
        /\ Finished(w) /\ AllOk(w)
        /\ results[w].success = flags.requests

\* C2: a count-bounded run that ends by worker completion, every response
\* 200: at report time the histogram holds one sample per request issued.
C2_AllSamplesAtReport ==
    (/\ hist.report.made /\ CountBounded /\ ~hist.sigConsumed
     /\ \A w \in Workers : AllOk(w))
    => hist.report.samples = hist.report.totals.requests

\* C3: without an interrupt, runningGoroutines is the client count minus
\* the completion signals consumed, it is never negative, and the loop has
\* ended only if every worker has sent its completion signal.
C3_LoopWaitsForAll ==
    (mainPc \in {"loop", "exited"} /\ ~hist.sigConsumed)
    => /\ runningGoroutines = flags.clients - hist.consumed.exit
       /\ runningGoroutines >= 0
       /\ runningGoroutines = 0 => \A w \in Workers : Finished(w)

C3_Witness ==
    /\ mainPc = "loop" /\ ~hist.sigConsumed
    /\ flags.clients = 2
    /\ hist.consumed.exit = 1
    /\ \E w \in Workers : wpc[w] = "sendResp"

C5_InterruptEndsLoop ==
    [][/\ (~hist.sigConsumed /\ hist.sigConsumed') => runningGoroutines' = 0
       /\ hist.sigConsumed =>
            /\ hist.sigConsumed'
            /\ runningGoroutines' = 0
            /\ hist.consumed' = hist.consumed
            /\ signalChan' >= signalChan
            /\ mainPc' # mainPc => hist.report'.made]_vars

C5_Witness ==
    /\ hist.sigConsumed /\ hist.report.made
    /\ flags.clients = 2
    /\ respChan # <<>>
    /\ \A w \in Workers : wpc[w] \notin {"exit", "done"}

C7_ReadAfterCompletion ==
    hist.report.made => hist.report.writers = {}

\* C8: in a count-bounded run no worker's requests counter exceeds the
\* configured number of requests per client.
C8_NeverExceedsLimit ==
    CountBounded => \A w \in DOMAIN results : results[w].requests <= flags.requests

\* Requests worker w has made to the i-th URL of the list.
Hits(w, i) == hist.hits[w][i]

C10_AllBadCounts ==
    /\ \A w \in DOMAIN results :
          (CountBounded /\ Finished(w) /\ AllBad(w))
          => results[w].success = 0 /\ results[w].badFailed = flags.requests
    /\ (\A w \in Workers : hist.served[w].ok = 0) => latencies.count = 0

C10_Witness ==
    \E w \in DOMAIN results :
        /\ CountBounded /\ flags.requests >= 2
        /\ Finished(w) /\ AllBad(w)
        /\ results[w].badFailed = flags.requests
        /\ hist.consumed.resp >= 1 /\ latencies.count = 0

AllErr(w) == hist.served[w].ok = 0 /\ hist.served[w].bad = 0

\* C11: count-bounded run, every attempt of the worker ends in an error
\* (the target is unreachable): each attempt sends an outcome record with
\* status 0 and size 0, the worker finishes with networkFailed equal to its
\* requests (N with a single target URL), success = 0 and badFailed = 0,
\* and while no attempt of the run was answered 2xx the histogram is empty.
C11_AllFailedCounts ==
    /\ [](\A w \in DOMAIN results :
            (CountBounded /\ Finished(w) /\ AllErr(w))
            => /\ results[w].networkFailed = results[w].requests
               /\ results[w].success = 0 /\ results[w].badFailed = 0
               /\ Len(configuration.urls) = 1
                     => results[w].networkFailed = flags.requests)
    /\ []((\A w \in Workers : hist.served[w].ok = 0) => latencies.count = 0)
    /\ [][\A w \in DOMAIN results :
            (wloc[w].err /\ wpc[w] = "sendResp" /\ wpc'[w] = "count")
            => /\ Len(respChan') = Len(respChan) + 1
               /\ respChan'[Len(respChan')].status = 0
               /\ respChan'[Len(respChan')].size = 0]_vars

C11_Witness ==
    \E w \in DOMAIN results :
        /\ CountBounded /\ flags.requests >= 2
        /\ flags.targetURL = HttpA
        /\ Finished(w) /\ AllErr(w)
        /\ results[w].networkFailed = flags.requests
        /\ hist.consumed.resp >= 1 /\ latencies.count = 0

\* C12: once the workers have been started, the process does not end but
\* by the report (exit status 0): no attempt of a worker ends it.
C12_ErrorsNeverAbort ==
    mainPc \in {"loop", "exited"} => exitCode \in {-1, 0}

\* The flag combinations claim C13 lists.
C13_Listed ==
    \/ flags.requests # Unset /\ flags.period # Unset
    \/ flags.requests = Unset /\ flags.period = Unset
    \/ (flags.mtlsCertFile = NoFile) # (flags.mtlsKeyFile = NoFile)
    \/ /\ flags.urlsFilePath # NoFile
       /\ \/ flags.hostHeader # "" \/ flags.targetURL # NoURL
          \/ flags.authHeader # "" \/ flags.resolve # ""

\* C13: with both or neither of -r and -t, with one of -x and -y only, or
\* with -f next to -host, -u, -auth or -resolve, the process never gets
\* beyond NewConfiguration, ends with status 1 if it ends, and no timer and
\* no worker is ever started.
C13_RejectsBeforeStart ==
    C13_Listed =>
        /\ mainPc = "config" /\ exitCode \in {-1, 1}
        /\ configuration = NoConfiguration
        /\ timer = "off"
        /\ DOMAIN results = {}
        /\ \A w \in Workers : wpc[w] = "idle"

C13_Witness ==
    /\ exitCode = 1 /\ mainPc = "config" /\ timer = "off"
    /\ flags.urlsFilePath # NoFile /\ flags.hostHeader # ""
    /\ flags.targetURL = NoURL /\ flags.authHeader = "" /\ flags.resolve = ""
    /\ flags.requests = Unset /\ flags.period # Unset
    /\ flags.mtlsCertFile = NoFile /\ flags.mtlsKeyFile = NoFile

\* C14: a configuration handed to the workers has a non-empty URL list.
C14_NonEmptyUrls ==
    Accepted => Len(configuration.urls) > 0

\* C15: with a target URL whose scheme is neither http nor https no worker
\* is started and no request is attempted.
C15_BadSchemeFatal ==
    (/\ flags.targetURL # NoURL /\ ~flags.targetURL.err
     /\ flags.targetURL.scheme \notin {"http", "https"})
    => /\ DOMAIN results = {}
       /\ \A w \in Workers : hist.served[w] = ZeroServed

\* C16: when Read or Write of a counting connection returns, it returns
\* the byte count and the error of the underlying call; if that call
\* succeeded with n bytes, n is added to the counter of that operation and
\* the other counter is unchanged; if it failed, neither counter changes.
C16_PassThrough ==
    [][\A c \in DOMAIN conn : \A op \in Ops :
          (conn[c][op].pc = "under" /\ conn'[c][op].pc = "done")
          => LET add == IF conn[c][op].err THEN 0 ELSE conn[c][op].len IN
             /\ conn'[c][op].n = conn[c][op].len
             /\ conn'[c][op].rerr = conn[c][op].err
             /\ readThroughput' = readThroughput + (IF op = "Read" THEN add ELSE 0)
             /\ writeThroughput' = writeThroughput + (IF op = "Write" THEN add ELSE 0)]_vars

C16_Witness ==
    \E c, d \in DOMAIN conn :
        /\ conn[c].Read.pc = "done" /\ ~conn[c].Read.rerr /\ conn[c].Read.n = MaxBytes
        /\ conn[d].Write.pc = "done" /\ conn[d].Write.rerr /\ conn[d].Write.n > 0
        /\ readThroughput = MaxBytes /\ writeThroughput = 0

\* The bytes of the successful underlying calls of kind op whose MyConn
\* call has not yet added them.
RECURSIVE Pending(_, _)
Pending(op, cs) ==
    IF cs = {} THEN 0
    ELSE LET c == CHOOSE x \in cs : TRUE
         IN  (IF conn[c][op].pc = "under" /\ ~conn[c][op].err
              THEN conn[c][op].len ELSE 0) + Pending(op, cs \ {c})

\* C17: under every interleaving of the calls on all connections, each
\* throughput counter is the sum of the bytes of the successful calls of
\* its kind, but for those of the calls still between the underlying call
\* and the atomic add; no counter ever decreases.
C17_NoLostIncrement ==
    /\ [](/\ readThroughput + Pending("Read", DOMAIN conn) = hist.delivered.Read
          /\ writeThroughput + Pending("Write", DOMAIN conn) = hist.delivered.Write)
    /\ [][readThroughput' >= readThroughput /\ writeThroughput' >= writeThroughput]_vars

C17_Witness ==
    \E c, d \in DOMAIN conn :
        /\ c # d
        /\ conn[c].Write.pc = "done" /\ ~conn[c].Write.rerr /\ conn[c].Write.n > 0
        /\ conn[d].Write.pc = "under" /\ ~conn[d].Write.err /\ conn[d].Write.len > 0
        /\ conn[d].Read.pc = "under"
        /\ writeThroughput = conn[c].Write.n

\* C18: with -d the configuration has method POST and the data of the
\* file, and every request a worker builds has method POST and that data
\* as its body; without -d every request is a GET without a body.
C18_PostCarriesBody ==
    /\ (Accepted /\ flags.postDataFilePath # NoFile)
          => configuration.method = "POST" /\ configuration.postData.set
    /\ \A w \in DOMAIN results :
          wloc[w].req # NoRequest
          => IF flags.postDataFilePath # NoFile
             THEN /\ wloc[w].req.Method = "POST"
                  /\ wloc[w].req.Body = configuration.postData
             ELSE wloc[w].req.Method = "GET" /\ ~wloc[w].req.Body.set

\* C19: the configuration keeps connections alive exactly if -k is given:
\* without -k the transport has keep-alives disabled and every request
\* asks for the connection to be closed, with -k neither.
C19_KeepAliveOnlyWithK ==
    /\ Accepted
          => /\ configuration.keepAlive = flags.keepAlive
             /\ configuration.myClient.DisableKeepAlives = ~flags.keepAlive
    /\ \A w \in DOMAIN results :
          wloc[w].req # NoRequest => wloc[w].req.Close = ~flags.keepAlive

C19_Witness ==
    \E w \in DOMAIN results :
        /\ flags.keepAlive /\ ~configuration.myClient.DisableKeepAlives
        /\ wpc[w] = "sendResp" /\ wloc[w].status = 200
        /\ wloc[w].req # NoRequest /\ ~wloc[w].req.Close

\* C20: the process ends with status 0 or 1; with 1 only out of
\* NewConfiguration, before any worker is started; with 0 exactly when the
\* report has been produced.
C20_ExitCodes ==
    /\ exitCode \in {-1, 0, 1}
    /\ exitCode = 1 => mainPc = "config" /\ DOMAIN results = {}
    /\ exitCode = 0 <=> hist.report.made

\* The address a URL names: its host and its explicit port, or the port of
\* its scheme.
OwnAddress(u) ==
    [fatal |-> FALSE, host |-> u.host,
     port |-> IF u.port # "" THEN u.port
              ELSE IF u.scheme = "https" THEN "443" ELSE "80"]

\* C21: with -resolve the name the server certificate is validated against
\* is the override, and the address dialed is the target URL's own host and
\* port whatever the override; without -resolve the validation name is the
\* host part of the target URL.
C21_ResolveOverride ==
    /\ Accepted /\ configuration # NoConfiguration =>
          configuration.myClient.ServerName =
             IF flags.resolve # "" THEN flags.resolve
             ELSE IF flags.targetURL.port = "" THEN flags.targetURL.host
             ELSE flags.targetURL.host \o ":" \o flags.targetURL.port
    /\ \A w \in DOMAIN results :
          (flags.targetURL # NoURL /\ wloc[w].dialed # NoDial)
              => wloc[w].dialed = OwnAddress(flags.targetURL)

C21_Witness ==
    \E w \in DOMAIN results :
        /\ flags.resolve # "" /\ flags.targetURL = HttpsB
        /\ configuration.myClient.ServerName = flags.resolve
        /\ wpc[w] = "sendResp" /\ wloc[w].status = 200
        /\ wloc[w].dialed = [fatal |-> FALSE, host |-> "b", port |-> "8443"]

\* C22: every request is dialed to the host of the URL it is for, at that
\* URL's explicit port or at 80 or 443 by its scheme, for a single target
\* and for every URL of a list read from a file.
C22_DialsOwnHost ==
    \A w \in DOMAIN results :
        wloc[w].dialed # NoDial
            => wloc[w].dialed = OwnAddress(configuration.urls[wloc[w].idx])

\* C23: in a duration-bounded run the request limit is the largest int64,
\* so the loop test of every worker holds: no worker leaves its loop or
\* sends a completion signal, and the report is only produced after a
\* signal, of the timer or of the operator, was consumed.
C23_DurationNeverStops ==
    (DurationBounded /\ configuration # NoConfiguration) =>
        /\ configuration.requests = MaxInt64
        /\ \A w \in DOMAIN results :
              /\ results[w].requests < configuration.requests
              /\ wpc[w] \notin {"exit", "done"}
              /\ hist.sent[w].exit = 0
        /\ exitChan = 0 /\ hist.consumed.exit = 0
        /\ hist.report.made => hist.sigConsumed

C23_Witness ==
    /\ DurationBounded /\ timer = "armed" /\ hist.interrupts = 1
    /\ hist.report.made /\ hist.sigConsumed
    /\ \E w \in DOMAIN results :
          results[w].requests >= 2 /\ wpc[w] \in {"inner", "outer"}

\* C24: a worker sends one completion signal, with the step that ends it:
\* it has sent one exactly when it has finished, and a finished worker
\* sends no outcome, error notice, dump or signal and changes no counter.
C24_SignalIsLast ==
    /\ [](\A w \in Workers :
            hist.sent[w].exit = IF Finished(w) THEN 1 ELSE 0)
    /\ [][\A w \in Workers :
            /\ hist'.sent[w].exit # hist.sent[w].exit =>
                  /\ wpc[w] = "exit" /\ Finished(w)'
                  /\ exitChan' = exitChan + 1
                  /\ hist'.sent[w] = [hist.sent[w] EXCEPT !.exit = @ + 1]
                  /\ results' = results
            /\ Finished(w) =>
                  /\ Finished(w)'
                  /\ results'[w] = results[w]
                  /\ hist'.sent[w] = hist.sent[w]]_vars

C24_Witness ==
    \E w, v \in DOMAIN results :
        /\ Finished(w) /\ hist.sent[w].exit = 1 /\ hist.sent[w].resp >= 1
        /\ wpc[v] = "sendResp" /\ mainPc = "loop"
        /\ results[w].requests = hist.sent[w].resp

\* The attempts of worker w that client.Do has returned from.
Returns(w) == hist.served[w].ok + hist.served[w].bad + hist.served[w].err

\* C25: a worker never retries.  Each attempt client.Do returned from gives
\* one outcome record, then one increment of requests, then the worker is
\* at the next URL: the records a worker has emitted are its attempts but
\* the one whose outcome it is about to send, and requests is the number of
\* records but the one just sent.
C25_OneRecordPerAttempt ==
    /\ [](\A w \in DOMAIN results :
            /\ hist.sent[w].resp =
                  Returns(w) - (IF wpc[w] \in {"sendErr", "sendDump", "sendResp"}
                                THEN 1 ELSE 0)
            /\ results[w].requests =
                  hist.sent[w].resp - (IF wpc[w] = "count" THEN 1 ELSE 0))
    /\ [][\A w \in DOMAIN results :
            /\ hist'.sent[w].resp \in {hist.sent[w].resp, hist.sent[w].resp + 1}
            /\ Returns(w)' # Returns(w) =>
                  /\ Returns(w)' = Returns(w) + 1
                  /\ hist'.hits[w][wloc[w].idx] = hist.hits[w][wloc[w].idx] + 1
            /\ (wpc[w] = "classify" /\ wpc'[w] # "classify") =>
                  wloc'[w].idx = wloc[w].idx + 1]_vars

C25_Witness ==
    \E w \in DOMAIN results :
        /\ hist.served[w].err = 1 /\ hist.served[w].ok = 1
        /\ hist.sent[w].resp = 2 /\ results[w].requests = 2
        /\ wpc[w] = "classify" /\ Len(configuration.urls) = 1

\* The outcome record the step appends to respChan.
Emitted == respChan'[Len(respChan')]

\* C26: the record of an attempt has status 0 and size 0 exactly when the
\* request failed without a response; otherwise it has the status of the
\* response and, as size, the length of the body plus the lengths of the
\* keys and values of the header with their separators.
C26_SizeOfBodyAndHeader ==
    [][\A w \in DOMAIN results :
          hist'.sent[w].resp # hist.sent[w].resp =>
              /\ (Emitted.status = 0) <=> wloc[w].err
              /\ (Emitted.size = 0) <=> wloc[w].err
              /\ ~wloc[w].err =>
                    /\ Emitted.status = wloc[w].status
                    /\ Emitted.size = wloc[w].body + HeaderSize(wloc[w].header)]_vars

\* C26, amended: as C26, the size being two more: the body counts with a
\* separator of its own, as every key and every value does.
C26_SizeWithBodySeparator ==
    [][\A w \in DOMAIN results :
          hist'.sent[w].resp # hist.sent[w].resp =>
              /\ (Emitted.status = 0) <=> wloc[w].err
              /\ (Emitted.size = 0) <=> wloc[w].err
              /\ ~wloc[w].err =>
                    /\ Emitted.status = wloc[w].status
                    /\ Emitted.size = wloc[w].body + 2 + HeaderSize(wloc[w].header)]_vars

C26_Witness ==
    \E w \in DOMAIN results :
        /\ wpc[w] = "count" /\ hist.sent[w].resp = 2
        /\ wloc[w].err /\ wloc[w].size = 9
        /\ respChan # <<>>
        /\ respChan[Len(respChan)].status = 0 /\ respChan[Len(respChan)].size = 0

\* C27: the histogram gets a sample only when main takes an outcome with a
\* status in [200, 300) from respChan, one sample for it: the sample count
\* never exceeds the number of 2xx outcomes consumed.
C27_SamplesOnly2xx ==
    /\ [](latencies.count <= hist.consumed.ok)
    /\ [][latencies' # latencies =>
            /\ InLoop /\ respChan # <<>>
            /\ Is2xx(Head(respChan).status)
            /\ respChan' = Tail(respChan)
            /\ latencies'.count = latencies.count + 1
            /\ hist'.consumed.ok = hist.consumed.ok + 1]_vars

C27_Witness ==
    /\ hist.consumed.resp = 2 /\ hist.consumed.ok = 1
    /\ latencies.count = 1 /\ mainPc = "loop"

\* C28: with -m, maxLatency is the largest latency among the 2xx outcomes
\* main has consumed, and a notification is written exactly when main
\* consumes a 2xx outcome that is the first one or has a latency strictly
\* above that maximum; without -m nothing is tracked or written.
C28_MaxLatency ==
    /\ [](IF flags.trackMaxLatency
          THEN /\ maxLatency = hist.maxOk
               /\ hist.consumed.ok = 0 <=> maxLatency = InitMaxLatency
          ELSE maxLatency = InitMaxLatency /\ notified = 0)
    /\ [][/\ notified' \in {notified, notified + 1}
          /\ notified' # notified <=>
                /\ flags.trackMaxLatency
                /\ hist'.consumed.ok # hist.consumed.ok
                /\ \/ hist.consumed.ok = 0
                   \/ Head(respChan).latency > hist.maxOk]_vars

C28_Witness ==
    /\ flags.trackMaxLatency /\ hist.consumed.ok = 2
    /\ notified = 1 /\ maxLatency = MaxLatency

\* Worker w is at a send on a channel that is full.
Blocked(w) ==
    \/ wpc[w] = "sendErr" /\ errChan = ChanCap
    \/ wpc[w] = "sendDump" /\ dumpChan = ChanCap
    \/ wpc[w] = "sendResp" /\ Len(respChan) = ChanCap
    \/ wpc[w] = "exit" /\ exitChan = ChanCap

C30_ReportNeverOvercounts ==
    (hist.report.made /\ hist.sigConsumed) =>
        /\ \A w \in DOMAIN results :
              /\ hist.report.read[w].requests <= hist.sent[w].resp
              /\ hist.report.read[w].requests >= hist.sent[w].resp - 1
        /\ hist.report.totals.requests <= SumOver(hist.sent, "resp", Workers)
        /\ hist.report.samples <= SumOver(hist.sent, "ok", Workers)

C30_Witness ==
    \E w \in DOMAIN results :
        /\ hist.report.made /\ hist.sigConsumed
        /\ hist.sent[w].resp >= 2
        /\ results[w].requests = hist.sent[w].resp
        /\ hist.report.read[w].requests = hist.sent[w].resp - 1
        /\ hist.report.samples < SumOver(hist.sent, "ok", Workers)

\* The counters of worker w add up: every request counted has one class.
AddsUp(w) ==
    results[w].requests =
        results[w].success + results[w].networkFailed + results[w].badFailed

\* The counter the attempt worker w is finishing falls under, by what
\* client.Do returned for it.
ClassOfAttempt(w) ==
    IF wloc[w].err THEN "networkFailed"
    ELSE IF wloc[w].status >= 200 /\ wloc[w].status < 300 THEN "success"
    ELSE "badFailed"

\* C31: whenever a worker is not between its two increments, so between
\* attempts, during one, and after its completion signal, its requests
\* counter is the sum of success, networkFailed and badFailed, and between
\* attempts each class counter is the number of attempts that ended that
\* way.  Between the two increments requests is one ahead.  A step changes
\* a worker's counters only by adding one to requests, or by adding one to
\* the one class counter of the attempt (networkFailed on an error, success
\* for a status in [200,300), badFailed otherwise); no counter decreases.
C31_CountersAddUp ==
    /\ [](\A w \in DOMAIN results :
            /\ wpc[w] # "classify" => AddsUp(w)
            /\ wpc[w] = "classify" =>
                  results[w].requests = results[w].success
                      + results[w].networkFailed + results[w].badFailed + 1
            /\ wpc[w] \in {"outer", "inner", "exit", "done"} =>
                  /\ results[w].success = hist.served[w].ok
                  /\ results[w].networkFailed = hist.served[w].err
                  /\ results[w].badFailed = hist.served[w].bad)
    /\ [][\A w \in DOMAIN results :
            /\ \A f \in DOMAIN results[w] : results'[w][f] >= results[w][f]
            /\ results'[w] # results[w] =>
                  \/ /\ wpc[w] = "count" /\ wpc'[w] = "classify"
                     /\ results'[w] = [results[w] EXCEPT !.requests = @ + 1]
                  \/ /\ wpc[w] = "classify"
                     /\ wpc'[w] \in {"inner", "outer"}
                     /\ results'[w] =
                           [results[w] EXCEPT ![ClassOfAttempt(w)] = @ + 1]
            /\ (wpc[w] = "count" /\ wpc'[w] # "count") =>
                  results'[w].requests = results[w].requests + 1
            /\ (wpc[w] = "classify" /\ wpc'[w] # "classify") =>
                  results'[w] # results[w]]_vars

C31_Witness ==
    \E w \in DOMAIN results :
        /\ wpc[w] = "done" /\ hist.sent[w].exit = 1
        /\ results[w].requests >= 2 /\ AddsUp(w)
        /\ results[w].success >= 1
        /\ results[w].networkFailed + results[w].badFailed >= 1

====
